---- MODULE Spec2Model ----
\* Model of walk_convex_hull.go: the resolution ladder, the target rate
\* generator, the rate-point resolver (GetOptimalResolutionForRate) with its
\* four goroutines, the hull walker (WalkConvexHull), and the batch driver
\* (main, EstimateVmafConvexHull).
EXTENDS Integers, Sequences, FiniteSets, Bags, TLC

VARIABLES
    resolutions,              \* package-level ladder (var resolutions)
    referenceVideoResolution, \* WalkConvexHull argument
    referenceVideoRate,       \* WalkConvexHull argument
    pc,                       \* position of the walker / resolver goroutine
    targetRates,              \* WalkConvexHull local
    rateIdx,                  \* position of the range loop (1-based)
    convexHull,               \* WalkConvexHull local, returned slice
    currentResolution,        \* WalkConvexHull local
    walkErr,                  \* error returned by WalkConvexHull
    rate,                     \* GetOptimalResolutionForRate argument
    candidateResolution,      \* GetOptimalResolutionForRate argument
    nextResolution,           \* GetOptimalResolutionForRate local
    encodeSuccess,            \* candidateEncodeSuccess / nextEncodeSuccess
    vmaf,                     \* candidateResolutionVmaf / nextResolutionVmaf
    retPoint,                 \* ConvexHullPoint returned by the resolver
    retErr,                   \* error returned by the resolver
    encState,                 \* the two EncodeVideo goroutines
    encOutcome,               \* value each EncodeVideo goroutine sends
    vmafState,                \* the two ComputeVmaf goroutines
    vmafChan,                 \* candidateVmafResult / nextVmafResult (cap 1)
    files,                    \* transient files present on disk
    resolveCalls,             \* number of resolver calls made by the walk
    encodeStarts,             \* bag of encoded file names an encode was started for
    scoreStarts,              \* bag of encoded file names a score was started for
    resolved,                 \* hull points the resolver has returned with a nil error
    grIn,                     \* GetTargetRates: argument under test
    grOut,                    \* GetTargetRates: result
    grDone,                   \* GetTargetRates: has been applied
    nrStart,                  \* GetNextResolution traversal: first input
    nrCur,                    \* GetNextResolution traversal: current input
    nrVisited,                \* GetNextResolution traversal: results so far
    nrDone,                   \* GetNextResolution traversal: reported no next
    filenames,                \* main: the lines of filenames.txt
    hullFiles,                \* convex hull files present on disk
    mainPc,                   \* main: position
    mainI,                    \* main: i (0-based)
    mainJ,                    \* main: j (0-based)
    effectiveBatchSize,       \* main local
    wg,                       \* counter of the sync.WaitGroup
    est,                      \* the EstimateVmafConvexHull goroutine of each filename
    started,                  \* how often a goroutine was started for each filename
    writers,                  \* filenames whose goroutine wrote a hull file
    crashed                   \* the process died in a panic

walkVars == <<referenceVideoResolution, referenceVideoRate, pc, targetRates,
              rateIdx, convexHull, currentResolution, walkErr, rate,
              candidateResolution, nextResolution, encodeSuccess, vmaf,
              retPoint, retErr, encState, encOutcome, vmafState, vmafChan,
              files, resolveCalls, encodeStarts, scoreStarts, resolved>>

grVars == <<grIn, grOut, grDone>>

nrVars == <<nrStart, nrCur, nrVisited, nrDone>>

batchVars == <<filenames, hullFiles, mainPc, mainI, mainJ, effectiveBatchSize,
               wg, est, started, writers, crashed>>

vars == <<resolutions, walkVars, grVars, nrVars, batchVars>>

-----------------------------------------------------------------------------
\* Bounds of the model.

\* Longest walk explored: source rates up to 500 * MaxWalkSteps + 250.
MaxWalkSteps == 3

\* Valid quality scores a score log can carry are 0..MaxScore.
MaxScore == 1

\* GetTargetRates is applied to rates -500 .. 100 * MaxRateUnits in steps of 100.
MaxRateUnits == 110

\* The end-to-end scenarios walk source rates 0 .. 250 * MaxScenarioUnits in
\* steps of 250.
MaxScenarioUnits == 20

\* Lists of at most MaxFiles filenames are explored.
MaxFiles == 3

\* Batch size explored by the model; the source sets batchSize to 100, which
\* main only uses as the cap of effectiveBatchSize.
batchSize == 2

\* Source rates probed in the batch driver are 500 * k for k up to MaxBatchSteps.
MaxBatchSteps == 1

\* GetNextResolution is applied to every ladder entry and to the
\* resolutions of height 0, 50, .., 50 * MaxProbeHeight.
MaxProbeHeight == 45

-----------------------------------------------------------------------------
\* Data types.

Res(h, w) == [Height |-> h, Width |-> w]

\* Resolution{}
ZeroResolution == Res(0, 0)

\* var resolutions = []Resolution{...}
Ladder ==
    << Res(2160, 3840), Res(1440, 2560), Res(1080, 1920), Res(720, 1280),
       Res(540, 960), Res(480, 854), Res(432, 768), Res(360, 640),
       Res(342, 608), Res(270, 480), Res(144, 256) >>

Point(res, r, score) == [Resolution |-> res, Rate |-> r, VmafScore |-> score]

\* ConvexHullPoint{}
ZeroPoint == Point(ZeroResolution, 0, 0)

Sides == {"candidate", "next"}

NoErr == "nil"
ErrEncode == "failed to encode video"
ErrVmaf == "failed to compute VMAF"

-----------------------------------------------------------------------------
\* Pure functions.

IntMin(a, b) == IF a < b THEN a ELSE b

\* The scan with the comparison reversed.
RECURSIVE ScanLadderFlipped(_, _)
ScanLadderFlipped(i, resolution) ==
    IF i > Len(resolutions)
    THEN [res |-> ZeroResolution, err |-> TRUE]
    ELSE IF resolutions[i].Height > resolution.Height
         THEN [res |-> resolutions[i], err |-> FALSE]
         ELSE ScanLadderFlipped(i + 1, resolution)

\* The scan without the early return: the last lower entry wins.
RECURSIVE ScanLadderLowest(_, _)
ScanLadderLowest(i, resolution) ==
    IF i > Len(resolutions)
    THEN [res |-> ZeroResolution, err |-> TRUE]
    ELSE LET later == ScanLadderLowest(i + 1, resolution) IN
         IF ~later.err
         THEN later
         ELSE IF resolutions[i].Height < resolution.Height
              THEN [res |-> resolutions[i], err |-> FALSE]
              ELSE later

\* The range loop of GetNextResolution, scanning the ladder from entry i.
RECURSIVE ScanLadder(_, _)
ScanLadder(i, resolution) ==
    IF i > Len(resolutions)
    THEN [res |-> ZeroResolution, err |-> TRUE]
    ELSE IF resolutions[i].Height < resolution.Height
         THEN [res |-> resolutions[i], err |-> FALSE]
         ELSE ScanLadder(i + 1, resolution)

\* The lookup with a non-strict comparison.
RECURSIVE ScanLadderInclusive(_, _)
ScanLadderInclusive(i, resolution) ==
    IF i > Len(resolutions)
    THEN [res |-> ZeroResolution, err |-> TRUE]
    ELSE IF resolutions[i].Height <= resolution.Height
         THEN [res |-> resolutions[i], err |-> FALSE]
         ELSE ScanLadderInclusive(i + 1, resolution)

GetNextResolutionInclusive(resolution) == ScanLadderInclusive(1, resolution)

GetNextResolution(resolution) == ScanLadder(1, resolution)

RateFloor == 500
RateStep == 500
RateCeiling == 10000

\* The append loop stopping before the limit instead of at it.
RECURSIVE AppendRatesExclusive(_, _, _)
AppendRatesExclusive(i, limit, acc) ==
    IF i < limit
    THEN AppendRatesExclusive(i + RateStep, limit, Append(acc, i))
    ELSE acc

\* First loop of GetTargetRates: append i while i <= limit.
RECURSIVE AppendRates(_, _, _)
AppendRates(i, limit, acc) ==
    IF i <= limit
    THEN AppendRates(i + RateStep, limit, Append(acc, i))
    ELSE acc

\* The swap loop running over the whole slice instead of half of it.
RECURSIVE ReverseRatesFull(_, _)
ReverseRatesFull(s, i) ==
    IF i < Len(s)
    THEN ReverseRatesFull([s EXCEPT ![i + 1] = s[Len(s) - i],
                                    ![Len(s) - i] = s[i + 1]], i + 1)
    ELSE s

\* Second loop of GetTargetRates: swap entries i and len-1-i (0-based).
RECURSIVE ReverseRates(_, _)
ReverseRates(s, i) ==
    IF i < Len(s) \div 2
    THEN ReverseRates([s EXCEPT ![i + 1] = s[Len(s) - i],
                                ![Len(s) - i] = s[i + 1]], i + 1)
    ELSE s

GetTargetRates(r) ==
    ReverseRates(AppendRates(RateFloor, IntMin(r, RateCeiling), << >>), 0)

\* fmt.Sprintf("%s_%dx%d_%dkbps.%s", ...) for one reference file.
EncodedFilename(res, r) ==
    [ext |-> "mp4", Height |-> res.Height, Width |-> res.Width, Rate |-> r]

\* fmt.Sprintf("%s.json", testFilename)
LogPath(testFilename) == [testFilename EXCEPT !.ext = "mp4.json"]

\* The comparison of line 175 made non-strict.
BestPointTieKeeps(cRes, nRes, r, cVmaf, nVmaf) ==
    IF cVmaf >= nVmaf THEN Point(cRes, r, cVmaf) ELSE Point(nRes, r, nVmaf)

\* The comparison of line 175 reversed.
BestPointFlipped(cRes, nRes, r, cVmaf, nVmaf) ==
    IF cVmaf < nVmaf THEN Point(cRes, r, cVmaf) ELSE Point(nRes, r, nVmaf)

\* Lines 175-179: the resolution with the best VMAF.
BestPoint(cRes, nRes, r, cVmaf, nVmaf) ==
    IF cVmaf > nVmaf THEN Point(cRes, r, cVmaf) ELSE Point(nRes, r, nVmaf)

\* The check of line 170 requiring both scores to be negative.
VmafInvalidBoth(cVmaf, nVmaf) == cVmaf < 0 /\ nVmaf < 0

\* Line 170
VmafInvalid(cVmaf, nVmaf) == cVmaf < 0 \/ nVmaf < 0

\* Line 152
EncodeFailed(cOk, nOk) == ~cOk \/ ~nOk

SideResolution(g) == IF g = "candidate" THEN candidateResolution ELSE nextResolution

SideFile(g) == EncodedFilename(SideResolution(g), rate)

-----------------------------------------------------------------------------
\* Inputs.

WalkResolutions ==
    {Ladder[i] : i \in 1..Len(Ladder)}
        \cup {ZeroResolution, Res(100, 178), Res(1000, 1778), Res(2400, 4266)}

WalkRates == {-1, 0, 499} \cup {250 * k : k \in 2..(2 * MaxWalkSteps + 1)}

\* The pooled_metrics.vmaf.mean number a well-formed score log can hold.
LogScores == (-1)..MaxScore

RateInputs == {100 * k : k \in (-5)..MaxRateUnits}

LadderInputs ==
    {Ladder[i] : i \in 1..Len(Ladder)}
        \cup {Res(50 * k, 50 * k) : k \in 0..MaxProbeHeight}

-----------------------------------------------------------------------------
\* Initial states.

IdleWalk ==
    /\ pc = "idle"
    /\ referenceVideoResolution = ZeroResolution
    /\ referenceVideoRate = 0

ResetWalk ==
    /\ targetRates = << >>
    /\ rateIdx = 1
    /\ convexHull = << >>
    /\ currentResolution = ZeroResolution
    /\ walkErr = NoErr
    /\ rate = 0
    /\ candidateResolution = ZeroResolution
    /\ nextResolution = ZeroResolution
    /\ encodeSuccess = [g \in Sides |-> FALSE]
    /\ vmaf = [g \in Sides |-> 0]
    /\ retPoint = ZeroPoint
    /\ retErr = NoErr
    /\ encState = [g \in Sides |-> "none"]
    /\ encOutcome = [g \in Sides |-> FALSE]
    /\ vmafState = [g \in Sides |-> "none"]
    /\ vmafChan = [g \in Sides |-> << >>]
    /\ files = {}
    /\ resolveCalls = 0
    /\ encodeStarts = EmptyBag
    /\ scoreStarts = EmptyBag
    /\ resolved = << >>

IdleRates ==
    /\ grIn = 0
    /\ grOut = << >>
    /\ grDone = FALSE

IdleLadder ==
    /\ nrStart = ZeroResolution
    /\ nrCur = ZeroResolution
    /\ nrVisited = << >>
    /\ nrDone = FALSE

IdleBatch ==
    /\ filenames = << >>
    /\ hullFiles = {}
    /\ mainPc = "idle"
    /\ mainI = 0
    /\ mainJ = 0
    /\ effectiveBatchSize = 0
    /\ wg = 0
    /\ est = << >>
    /\ started = << >>
    /\ writers = {}
    /\ crashed = FALSE

\* A walk is about to be called with some resolution and source rate.
Init ==
    /\ resolutions = Ladder
    /\ referenceVideoResolution \in WalkResolutions
    /\ referenceVideoRate \in WalkRates
    /\ pc = "W183"
    /\ ResetWalk
    /\ IdleRates
    /\ IdleLadder
    /\ IdleBatch

-----------------------------------------------------------------------------
\* WalkConvexHull

resolverLocals == <<rate, candidateResolution, nextResolution, encodeSuccess,
                    vmaf, retPoint, retErr>>

goroutines == <<encState, encOutcome, vmafState, vmafChan>>

ghosts == <<resolveCalls, encodeStarts, scoreStarts, resolved>>

inputs == <<resolutions, referenceVideoResolution, referenceVideoRate,
            grVars, nrVars, batchVars>>

\* Lines 183-186
WalkStart ==
    /\ pc = "W183"
    /\ targetRates' = GetTargetRates(referenceVideoRate)
    /\ convexHull' = << >>
    /\ currentResolution' = referenceVideoResolution
    /\ rateIdx' = 1
    /\ pc' = "W187"
    /\ UNCHANGED <<walkErr, resolverLocals, goroutines, files, ghosts, inputs>>

\* Line 196: the range loop is exhausted.
WalkReturn ==
    /\ pc = "W187"
    /\ rateIdx > Len(targetRates)
    /\ walkErr' = NoErr
    /\ pc' = "returned"
    /\ UNCHANGED <<targetRates, rateIdx, convexHull, currentResolution,
                   resolverLocals, goroutines, files, ghosts, inputs>>

\* Lines 187-188: the call of GetOptimalResolutionForRate for the next rate.
\* The channels and goroutines of a call are fresh.
CallResolver ==
    /\ pc = "W187"
    /\ rateIdx <= Len(targetRates)
    /\ rate' = targetRates[rateIdx]
    /\ candidateResolution' = currentResolution
    /\ nextResolution' = ZeroResolution
    /\ encodeSuccess' = [g \in Sides |-> FALSE]
    /\ vmaf' = [g \in Sides |-> 0]
    /\ encState' = [g \in Sides |-> "none"]
    /\ encOutcome' = [g \in Sides |-> FALSE]
    /\ vmafState' = [g \in Sides |-> "none"]
    /\ vmafChan' = [g \in Sides |-> << >>]
    /\ resolveCalls' = resolveCalls + 1
    /\ pc' = "R134"
    /\ UNCHANGED <<targetRates, rateIdx, convexHull, currentResolution, walkErr,
                   retPoint, retErr, files, encodeStarts, scoreStarts, resolved,
                   inputs>>

\* The failure return dropping the hull built so far.
WalkFailDropsHull ==
    /\ pc = "W189"
    /\ retErr # NoErr
    /\ walkErr' = retErr
    /\ convexHull' = << >>
    /\ pc' = "returned"
    /\ UNCHANGED <<targetRates, rateIdx, currentResolution,
                   resolverLocals, goroutines, files, ghosts, inputs>>

\* Lines 189-192: the resolver failed; the hull so far is returned with the error.
WalkFail ==
    /\ pc = "W189"
    /\ retErr # NoErr
    /\ walkErr' = retErr
    /\ pc' = "returned"
    /\ UNCHANGED <<targetRates, rateIdx, convexHull, currentResolution,
                   resolverLocals, goroutines, files, ghosts, inputs>>

\* The new hull point put in front of the hull instead of behind it.
WalkAppendPrepends ==
    /\ pc = "W189"
    /\ retErr = NoErr
    /\ convexHull' = <<retPoint>> \o convexHull
    /\ currentResolution' = retPoint.Resolution
    /\ rateIdx' = rateIdx + 1
    /\ pc' = "W187"
    /\ UNCHANGED <<targetRates, walkErr, resolverLocals, goroutines, files,
                   ghosts, inputs>>

\* The append without the assignment of line 194.
WalkAppendKeepsResolution ==
    /\ pc = "W189"
    /\ retErr = NoErr
    /\ convexHull' = Append(convexHull, retPoint)
    /\ rateIdx' = rateIdx + 1
    /\ pc' = "W187"
    /\ UNCHANGED <<targetRates, currentResolution, walkErr, resolverLocals,
                   goroutines, files, ghosts, inputs>>

\* Lines 193-194: the hull point is appended and its resolution carried forward.
WalkAppend ==
    /\ pc = "W189"
    /\ retErr = NoErr
    /\ convexHull' = Append(convexHull, retPoint)
    /\ currentResolution' = retPoint.Resolution
    /\ rateIdx' = rateIdx + 1
    /\ pc' = "W187"
    /\ UNCHANGED <<targetRates, walkErr, resolverLocals, goroutines, files,
                   ghosts, inputs>>

-----------------------------------------------------------------------------
\* GetOptimalResolutionForRate

walkLocals == <<targetRates, rateIdx, convexHull, currentResolution, walkErr>>

Alive == pc # "panicked"

\* The lookup propagating "no next resolution" as a failure of the call.
LookupNextFloorFails ==
    /\ pc = "R134"
    /\ LET r == GetNextResolution(candidateResolution) IN
         IF r.err
         THEN /\ retPoint' = ZeroPoint
              /\ retErr' = "no next resolution"
              /\ pc' = "W189"
              /\ UNCHANGED nextResolution
         ELSE /\ nextResolution' = r.res
              /\ pc' = "R143"
              /\ UNCHANGED <<retPoint, retErr>>
    /\ UNCHANGED <<walkLocals, rate, candidateResolution, encodeSuccess, vmaf,
                   goroutines, files, ghosts, inputs>>

\* Lines 134-137: the ladder lookup; at the floor the candidate is returned
\* with score -1 and no error.
LookupNext ==
    /\ pc = "R134"
    /\ LET r == GetNextResolution(candidateResolution) IN
         IF r.err
         THEN /\ retPoint' = Point(candidateResolution, rate, -1)
              /\ retErr' = NoErr
              /\ resolved' = Append(resolved, retPoint')
              /\ pc' = "W189"
              /\ UNCHANGED nextResolution
         ELSE /\ nextResolution' = r.res
              /\ pc' = "R143"
              /\ UNCHANGED <<retPoint, retErr, resolved>>
    /\ UNCHANGED <<walkLocals, rate, candidateResolution, encodeSuccess, vmaf,
                   goroutines, files, resolveCalls, encodeStarts, scoreStarts,
                   inputs>>

\* Lines 143 and 147: go EncodeVideo(...)
StartEncode(g, at, to) ==
    /\ pc = at
    /\ encState' = [encState EXCEPT ![g] = "running"]
    /\ encodeStarts' = encodeStarts (+) SetToBag({SideFile(g)})
    /\ pc' = to
    /\ UNCHANGED <<walkLocals, resolverLocals, encOutcome, vmafState, vmafChan,
                   files, resolveCalls, scoreStarts, resolved, inputs>>

StartEncodeCandidate == StartEncode("candidate", "R143", "R147")

StartEncodeNext == StartEncode("next", "R147", "R150")

\* EncodeVideo, lines 81-90: ffmpeg runs; on success the output file exists,
\* on failure a partial output file may or may not be left. The goroutine then
\* blocks on its unbuffered channel.
EncodeRun(g) ==
    /\ Alive
    /\ encState[g] = "running"
    /\ \E ok \in BOOLEAN, left \in BOOLEAN :
         /\ ok => left
         /\ encOutcome' = [encOutcome EXCEPT ![g] = ok]
         /\ files' = IF left THEN files \cup {SideFile(g)} ELSE files
    /\ encState' = [encState EXCEPT ![g] = "sending"]
    /\ UNCHANGED <<pc, walkLocals, resolverLocals, vmafState, vmafChan, ghosts,
                   inputs>>

\* Lines 150 and 151: receive from the unbuffered channel of one encode.
RecvEncode(g, at, to) ==
    /\ pc = at
    /\ encState[g] = "sending"
    /\ encodeSuccess' = [encodeSuccess EXCEPT ![g] = encOutcome[g]]
    /\ encState' = [encState EXCEPT ![g] = "done"]
    /\ pc' = to
    /\ UNCHANGED <<walkLocals, rate, candidateResolution, nextResolution, vmaf,
                   retPoint, retErr, encOutcome, vmafState, vmafChan, files,
                   ghosts, inputs>>

\* Line 150 returning the failure at once when the first encode failed,
\* without receiving from the second encode.
RecvEncodeCandidateEarlyReturn ==
    /\ pc = "R150"
    /\ encState["candidate"] = "sending"
    /\ encodeSuccess' = [encodeSuccess EXCEPT !["candidate"] = encOutcome["candidate"]]
    /\ encState' = [encState EXCEPT !["candidate"] = "done"]
    /\ IF encOutcome["candidate"]
       THEN /\ pc' = "R151"
            /\ UNCHANGED <<retPoint, retErr>>
       ELSE /\ retPoint' = ZeroPoint
            /\ retErr' = ErrEncode
            /\ pc' = "W189"
    /\ UNCHANGED <<walkLocals, rate, candidateResolution, nextResolution, vmaf,
                   encOutcome, vmafState, vmafChan, files, ghosts, inputs>>

RecvEncodeCandidate == RecvEncode("candidate", "R150", "R151")

\* Line 151 without the receive: the second encode is taken to have succeeded.
RecvEncodeNextNoWait ==
    /\ pc = "R151"
    /\ encodeSuccess' = [encodeSuccess EXCEPT !["next"] = TRUE]
    /\ pc' = "R152"
    /\ UNCHANGED <<walkLocals, rate, candidateResolution, nextResolution, vmaf,
                   retPoint, retErr, goroutines, files, ghosts, inputs>>

RecvEncodeNext == RecvEncode("next", "R151", "R152")

\* Lines 152-154
CheckEncodes ==
    /\ pc = "R152"
    /\ IF EncodeFailed(encodeSuccess["candidate"], encodeSuccess["next"])
       THEN /\ retPoint' = ZeroPoint
            /\ retErr' = ErrEncode
            /\ pc' = "W189"
       ELSE /\ pc' = "R160"
            /\ UNCHANGED <<retPoint, retErr>>
    /\ UNCHANGED <<walkLocals, rate, candidateResolution, nextResolution,
                   encodeSuccess, vmaf, goroutines, files, ghosts, inputs>>

\* Lines 160 and 161: go ComputeVmaf(...)
StartVmaf(g, at, to) ==
    /\ pc = at
    /\ vmafState' = [vmafState EXCEPT ![g] = "running"]
    /\ scoreStarts' = scoreStarts (+) SetToBag({SideFile(g)})
    /\ pc' = to
    /\ UNCHANGED <<walkLocals, resolverLocals, encState, encOutcome, vmafChan,
                   files, resolveCalls, encodeStarts, resolved, inputs>>

StartVmafCandidate == StartVmaf("candidate", "R160", "R161")

StartVmafNext == StartVmaf("next", "R161", "R164")

\* ComputeVmaf, lines 114-125: ffmpeg runs with log_path; whether it fails or
\* not, the log file may or may not have been written. On failure -1 is sent.
VmafRun(g) ==
    /\ Alive
    /\ vmafState[g] = "running"
    /\ \E ok \in BOOLEAN, logged \in BOOLEAN :
         /\ files' = IF logged THEN files \cup {LogPath(SideFile(g))} ELSE files
         /\ IF ok
            THEN /\ vmafState' = [vmafState EXCEPT ![g] = "parsing"]
                 /\ UNCHANGED vmafChan
            ELSE /\ vmafState' = [vmafState EXCEPT ![g] = "done"]
                 /\ vmafChan' = [vmafChan EXCEPT ![g] = Append(@, -1)]
    /\ UNCHANGED <<pc, walkLocals, resolverLocals, encState, encOutcome, ghosts,
                   inputs>>

\* Line 128 with ParseVmafScoreFromLogFile, lines 94-106, when the log holds
\* a number (or cannot be opened).
VmafParse(g) ==
    /\ Alive
    /\ vmafState[g] = "parsing"
    /\ IF LogPath(SideFile(g)) \notin files
       THEN /\ vmafChan' = [vmafChan EXCEPT ![g] = Append(@, -1)]
            /\ UNCHANGED files
       ELSE /\ files' = files \ {LogPath(SideFile(g))}
            /\ \E mean \in LogScores :
                 vmafChan' = [vmafChan EXCEPT ![g] = Append(@, mean)]
    /\ vmafState' = [vmafState EXCEPT ![g] = "done"]
    /\ UNCHANGED <<pc, walkLocals, resolverLocals, encState, encOutcome, ghosts,
                   inputs>>

\* Line 106 when the log has no pooled_metrics.vmaf.mean number: the type
\* assertion panics and the process dies.
VmafParsePanic(g) ==
    /\ Alive
    /\ vmafState[g] = "parsing"
    /\ LogPath(SideFile(g)) \in files
    /\ files' = files \ {LogPath(SideFile(g))}
    /\ pc' = "panicked"
    /\ UNCHANGED <<walkLocals, resolverLocals, goroutines, ghosts, inputs>>

\* Lines 164 and 165: receive from the buffered channel of one score.
RecvVmaf(g, at, to) ==
    /\ pc = at
    /\ vmafChan[g] # << >>
    /\ vmaf' = [vmaf EXCEPT ![g] = Head(vmafChan[g])]
    /\ vmafChan' = [vmafChan EXCEPT ![g] = Tail(@)]
    /\ pc' = to
    /\ UNCHANGED <<walkLocals, rate, candidateResolution, nextResolution,
                   encodeSuccess, retPoint, retErr, encState, encOutcome,
                   vmafState, files, ghosts, inputs>>

RecvVmafCandidate == RecvVmaf("candidate", "R164", "R165")

RecvVmafNext == RecvVmaf("next", "R165", "R167")

\* Lines 167-168: os.Remove of the two encoded files.
RemoveEncoded ==
    /\ pc = "R167"
    /\ files' = files \ {SideFile("candidate"), SideFile("next")}
    /\ pc' = "R170"
    /\ UNCHANGED <<walkLocals, resolverLocals, goroutines, ghosts, inputs>>

\* The two scores taken in the wrong order at line 175.
DecideSwapped ==
    /\ pc = "R170"
    /\ IF VmafInvalid(vmaf["candidate"], vmaf["next"])
       THEN /\ retPoint' = ZeroPoint
            /\ retErr' = ErrVmaf
            /\ UNCHANGED resolved
       ELSE /\ retPoint' = BestPoint(candidateResolution, nextResolution, rate,
                                     vmaf["next"], vmaf["candidate"])
            /\ retErr' = NoErr
            /\ resolved' = Append(resolved, retPoint')
    /\ pc' = "W189"
    /\ UNCHANGED <<walkLocals, rate, candidateResolution, nextResolution,
                   encodeSuccess, vmaf, goroutines, files, resolveCalls,
                   encodeStarts, scoreStarts, inputs>>

\* Lines 170-179
Decide ==
    /\ pc = "R170"
    /\ IF VmafInvalid(vmaf["candidate"], vmaf["next"])
       THEN /\ retPoint' = ZeroPoint
            /\ retErr' = ErrVmaf
            /\ UNCHANGED resolved
       ELSE /\ retPoint' = BestPoint(candidateResolution, nextResolution, rate,
                                     vmaf["candidate"], vmaf["next"])
            /\ retErr' = NoErr
            /\ resolved' = Append(resolved, retPoint')
    /\ pc' = "W189"
    /\ UNCHANGED <<walkLocals, rate, candidateResolution, nextResolution,
                   encodeSuccess, vmaf, goroutines, files, resolveCalls,
                   encodeStarts, scoreStarts, inputs>>

-----------------------------------------------------------------------------

Next ==
    \/ WalkStart
    \/ WalkReturn
    \/ CallResolver
    \/ WalkFail
    \/ WalkAppend
    \/ LookupNext
    \/ StartEncodeCandidate
    \/ StartEncodeNext
    \/ \E g \in Sides : EncodeRun(g)
    \/ RecvEncodeCandidate
    \/ RecvEncodeNext
    \/ CheckEncodes
    \/ StartVmafCandidate
    \/ StartVmafNext
    \/ \E g \in Sides : VmafRun(g)
    \/ \E g \in Sides : VmafParse(g)
    \/ \E g \in Sides : VmafParsePanic(g)
    \/ RecvVmafCandidate
    \/ RecvVmafNext
    \/ RemoveEncoded
    \/ Decide

Spec == Init /\ [][Next]_vars

\* The walk when the Go scheduler runs every runnable goroutine and every
\* ffmpeg command terminates.
SpecLive == Spec /\ WF_vars(Next)

-----------------------------------------------------------------------------
\* The end-to-end scenarios: a 1080p source, an encoder that always succeeds
\* and a scorer whose score is fixed by resolution and rate.

ScenarioRates == {250 * k : k \in 0..MaxScenarioUnits}

InitScenario ==
    /\ resolutions = Ladder
    /\ referenceVideoResolution = Res(1080, 1920)
    /\ referenceVideoRate \in ScenarioRates
    /\ pc = "W183"
    /\ ResetWalk
    /\ IdleRates
    /\ IdleLadder
    /\ IdleBatch

\* EncodeVideo, lines 81-90, when ffmpeg succeeds.
EncodeRunOk(g) ==
    /\ Alive
    /\ encState[g] = "running"
    /\ encOutcome' = [encOutcome EXCEPT ![g] = TRUE]
    /\ files' = files \cup {SideFile(g)}
    /\ encState' = [encState EXCEPT ![g] = "sending"]
    /\ UNCHANGED <<pc, walkLocals, resolverLocals, vmafState, vmafChan, ghosts,
                   inputs>>

\* ComputeVmaf, lines 114-120, when ffmpeg succeeds and writes its log.
VmafRunOk(g) ==
    /\ Alive
    /\ vmafState[g] = "running"
    /\ files' = files \cup {LogPath(SideFile(g))}
    /\ vmafState' = [vmafState EXCEPT ![g] = "parsing"]
    /\ UNCHANGED <<pc, walkLocals, resolverLocals, encState, encOutcome,
                   vmafChan, ghosts, inputs>>

\* Line 128 with ParseVmafScoreFromLogFile, lines 94-106, when the log holds
\* one of the given means.
VmafParseOf(g, means) ==
    /\ Alive
    /\ vmafState[g] = "parsing"
    /\ LogPath(SideFile(g)) \in files
    /\ files' = files \ {LogPath(SideFile(g))}
    /\ \E mean \in means : vmafChan' = [vmafChan EXCEPT ![g] = Append(@, mean)]
    /\ vmafState' = [vmafState EXCEPT ![g] = "done"]
    /\ UNCHANGED <<pc, walkLocals, resolverLocals, encState, encOutcome, ghosts,
                   inputs>>

\* Scenario 1: the score is the height of the encoded resolution.
HeightScores(res, r) == {res.Height}

\* Scenario 2: 1080p has a fixed score, 720p a higher one below 2000 kbps
\* and a lower one from 2000 kbps on; lower resolutions score anything valid.
CrossoverScores(res, r) ==
    IF res.Height = 1080 THEN {1}
    ELSE IF res.Height = 720 THEN (IF r < 2000 THEN {2} ELSE {0})
    ELSE 0..(MaxScore + 2)

VmafParseHeight(g) == VmafParseOf(g, HeightScores(SideResolution(g), rate))

VmafParseCrossover(g) == VmafParseOf(g, CrossoverScores(SideResolution(g), rate))

NextScenario1 ==
    \/ WalkStart
    \/ WalkReturn
    \/ CallResolver
    \/ WalkAppend
    \/ LookupNext
    \/ StartEncodeCandidate
    \/ StartEncodeNext
    \/ \E g \in Sides : EncodeRunOk(g)
    \/ RecvEncodeCandidate
    \/ RecvEncodeNext
    \/ CheckEncodes
    \/ StartVmafCandidate
    \/ StartVmafNext
    \/ \E g \in Sides : VmafRunOk(g)
    \/ \E g \in Sides : VmafParseHeight(g)
    \/ RecvVmafCandidate
    \/ RecvVmafNext
    \/ RemoveEncoded
    \/ Decide

SpecScenario1 == InitScenario /\ [][NextScenario1]_vars

NextScenario2 ==
    \/ WalkStart
    \/ WalkReturn
    \/ CallResolver
    \/ WalkAppend
    \/ LookupNext
    \/ StartEncodeCandidate
    \/ StartEncodeNext
    \/ \E g \in Sides : EncodeRunOk(g)
    \/ RecvEncodeCandidate
    \/ RecvEncodeNext
    \/ CheckEncodes
    \/ StartVmafCandidate
    \/ StartVmafNext
    \/ \E g \in Sides : VmafRunOk(g)
    \/ \E g \in Sides : VmafParseCrossover(g)
    \/ RecvVmafCandidate
    \/ RecvVmafNext
    \/ RemoveEncoded
    \/ Decide

SpecScenario2 == InitScenario /\ [][NextScenario2]_vars

-----------------------------------------------------------------------------
\* GetTargetRates applied to one source rate.

InitRates ==
    /\ resolutions = Ladder
    /\ IdleWalk
    /\ ResetWalk
    /\ IdleLadder
    /\ IdleBatch
    /\ grIn \in RateInputs
    /\ grOut = << >>
    /\ grDone = FALSE

ApplyGetTargetRates ==
    /\ ~grDone
    /\ grOut' = GetTargetRates(grIn)
    /\ grDone' = TRUE
    /\ UNCHANGED <<resolutions, walkVars, grIn, nrVars, batchVars>>

NextRates == ApplyGetTargetRates

SpecRates == InitRates /\ [][NextRates]_vars

-----------------------------------------------------------------------------
\* GetNextResolution applied repeatedly to its own result.

InitLadder ==
    /\ resolutions = Ladder
    /\ IdleWalk
    /\ ResetWalk
    /\ IdleRates
    /\ IdleBatch
    /\ nrStart \in LadderInputs
    /\ nrCur = nrStart
    /\ nrVisited = << >>
    /\ nrDone = FALSE

ApplyGetNextResolution ==
    /\ ~nrDone
    /\ LET r == GetNextResolution(nrCur) IN
         IF r.err
         THEN /\ nrDone' = TRUE
              /\ UNCHANGED <<nrCur, nrVisited>>
         ELSE /\ nrCur' = r.res
              /\ nrVisited' = Append(nrVisited, r.res)
              /\ UNCHANGED nrDone
    /\ UNCHANGED <<resolutions, walkVars, grVars, nrStart, batchVars>>

NextLadder == ApplyGetNextResolution

SpecLadder == InitLadder /\ [][NextLadder]_vars

TypeOK ==
    /\ pc \in {"idle", "W183", "W187", "W189", "returned", "panicked", "R134",
               "R143", "R147", "R150", "R151", "R152", "R160", "R161", "R164",
               "R165", "R167", "R170"}
    /\ rateIdx \in 1..(Len(targetRates) + 1)
    /\ Len(convexHull) <= Len(targetRates)

-----------------------------------------------------------------------------
\* main and EstimateVmafConvexHull. Each walk is taken one resolver call at a
\* time; a call ends with one of the results a call of the detailed walk can
\* end with.

\* File names are sequences of parts; a last part ".mp4" is that suffix.
Names == {<<"a">>, <<"a", ".mp4">>}

FileLists == UNION {[1..n -> Names] : n \in 0..MaxFiles}

\* Line 299: "videos/" + filenames[j]
VideoFilename(k) == <<"videos/">> \o filenames[k]

\* strings.TrimSuffix(name, ".mp4")
TrimSuffix(name) ==
    IF Len(name) > 0 /\ name[Len(name)] = ".mp4"
    THEN SubSeq(name, 1, Len(name) - 1)
    ELSE name

\* Line 234
ConvexHullFilename(videoFilename) == TrimSuffix(videoFilename) \o <<".json">>

BatchResolutions == {Res(1080, 1920), Res(1440, 2560)}

BatchRates == {500 * k : k \in 0..MaxBatchSteps}

IdleEst ==
    [pc |-> "idle", probeOk |-> FALSE, resolution |-> ZeroResolution,
     targetRates |-> << >>, rateIdx |-> 1, currentResolution |-> ZeroResolution,
     hullLen |-> 0, outcome |-> "none"]

InitBatch ==
    /\ resolutions = Ladder
    /\ IdleWalk
    /\ ResetWalk
    /\ IdleRates
    /\ IdleLadder
    /\ filenames \in FileLists
    /\ hullFiles \in SUBSET {ConvexHullFilename(<<"videos/">> \o filenames[k]) :
                                 k \in 1..Len(filenames)}
    /\ mainPc = "L295"
    /\ mainI = 0
    /\ mainJ = 0
    /\ effectiveBatchSize = 0
    /\ wg = 0
    /\ est = [k \in 1..Len(filenames) |-> IdleEst]
    /\ started = [k \in 1..Len(filenames) |-> 0]
    /\ writers = {}
    /\ crashed = FALSE

others == <<resolutions, walkVars, grVars, nrVars>>

mainLocals == <<mainPc, mainI, mainJ, effectiveBatchSize>>

\* Lines 295-296, and the end of main when the loop condition fails.
MainLoop ==
    /\ ~crashed
    /\ mainPc = "L295"
    /\ IF mainI < Len(filenames)
       THEN /\ effectiveBatchSize' = IntMin(Len(filenames) - mainI, batchSize)
            /\ mainPc' = "L297"
       ELSE /\ mainPc' = "exit"
            /\ UNCHANGED effectiveBatchSize
    /\ UNCHANGED <<filenames, hullFiles, mainI, mainJ, wg, est, started,
                   writers, crashed, others>>

\* Lines 297-298: wg.Add and the start of the inner loop.
MainAdd ==
    /\ ~crashed
    /\ mainPc = "L297"
    /\ wg' = wg + effectiveBatchSize
    /\ mainJ' = mainI
    /\ mainPc' = "L298"
    /\ UNCHANGED <<filenames, hullFiles, mainI, effectiveBatchSize, est,
                   started, writers, crashed, others>>

\* Lines 298-299: go EstimateVmafConvexHull("videos/"+filenames[j], &wg)
MainGo ==
    /\ ~crashed
    /\ mainPc = "L298"
    /\ mainJ < mainI + effectiveBatchSize
    /\ est' = [est EXCEPT ![mainJ + 1] = [IdleEst EXCEPT !.pc = "E234"]]
    /\ started' = [started EXCEPT ![mainJ + 1] = @ + 1]
    /\ mainJ' = mainJ + 1
    /\ UNCHANGED <<filenames, hullFiles, mainPc, mainI, effectiveBatchSize, wg,
                   writers, crashed, others>>

\* The inner loop without line 302, so that i only advances by one.
MainBatchStartedNoAdvance ==
    /\ ~crashed
    /\ mainPc = "L298"
    /\ mainJ >= mainI + effectiveBatchSize
    /\ mainPc' = "L303"
    /\ UNCHANGED <<filenames, hullFiles, mainI, mainJ, effectiveBatchSize, wg,
                   est, started, writers, crashed, others>>

\* Lines 298-302: the inner loop ends; i += effectiveBatchSize - 1.
MainBatchStarted ==
    /\ ~crashed
    /\ mainPc = "L298"
    /\ mainJ >= mainI + effectiveBatchSize
    /\ mainI' = mainI + effectiveBatchSize - 1
    /\ mainPc' = "L303"
    /\ UNCHANGED <<filenames, hullFiles, mainJ, effectiveBatchSize, wg, est,
                   started, writers, crashed, others>>

\* Line 303 and the i++ of line 295: wg.Wait returns when the counter is zero.
MainWait ==
    /\ ~crashed
    /\ mainPc = "L303"
    /\ wg = 0
    /\ mainI' = mainI + 1
    /\ mainPc' = "L295"
    /\ UNCHANGED <<filenames, hullFiles, mainJ, effectiveBatchSize, wg, est,
                   started, writers, crashed, others>>

\* A return of EstimateVmafConvexHull with its deferred wg.Done (line 233);
\* the locals of the walk end with it.
EstReturn(k, outcome) ==
    /\ est' = [est EXCEPT ![k] = [IdleEst EXCEPT !.pc = "done",
                                                 !.outcome = outcome]]
    /\ wg' = wg - 1

\* Lines 234-239: the asset is skipped when the lookup of its hull file does
\* not report that the file is missing.
EstSkipExisting(k) ==
    /\ ~crashed
    /\ est[k].pc = "E234"
    /\ ConvexHullFilename(VideoFilename(k)) \in hullFiles
    /\ EstReturn(k, "skipped")
    /\ UNCHANGED <<filenames, hullFiles, mainLocals, started, writers, crashed,
                   others>>

\* Lines 234-248 when the hull file is missing, with
\* GetVideoResolutionAndBitrate (199-212) and the start of WalkConvexHull
\* (183-186): a failed probe gives Resolution{} and rate -1, which line 242
\* does not tell from a probed video.
EstProbe(k) ==
    /\ ~crashed
    /\ est[k].pc = "E234"
    /\ ConvexHullFilename(VideoFilename(k)) \notin hullFiles
    /\ \E ok \in BOOLEAN :
         \E res \in (IF ok THEN BatchResolutions ELSE {ZeroResolution}) :
         \E r \in (IF ok THEN BatchRates ELSE {-1}) :
            IF res.Height > 1080
            THEN EstReturn(k, "skipped")
            ELSE /\ est' = [est EXCEPT ![k].pc = "W187", ![k].probeOk = ok,
                                       ![k].resolution = res,
                                       ![k].targetRates = GetTargetRates(r),
                                       ![k].rateIdx = 1,
                                       ![k].currentResolution = res,
                                       ![k].hullLen = 0]
                 /\ UNCHANGED wg
    /\ UNCHANGED <<filenames, hullFiles, mainLocals, started, writers, crashed,
                   others>>

\* Lines 187-188 and 134-147: the resolver is called for the next rate; at
\* the ladder floor it returns at once and its point is appended.
EstCallResolver(k) ==
    /\ ~crashed
    /\ est[k].pc = "W187"
    /\ est[k].rateIdx <= Len(est[k].targetRates)
    /\ IF GetNextResolution(est[k].currentResolution).err
       THEN est' = [est EXCEPT ![k].hullLen = @ + 1, ![k].rateIdx = @ + 1]
       ELSE est' = [est EXCEPT ![k].pc = "R"]
    /\ UNCHANGED <<filenames, hullFiles, mainLocals, wg, started, writers,
                   crashed, others>>

\* Lines 174-179 and 193-194: the call returns the candidate or the
\* next-lower resolution, which is appended and carried forward.
EstResolved(k) ==
    /\ ~crashed
    /\ est[k].pc = "R"
    /\ \E res \in {est[k].currentResolution,
                    GetNextResolution(est[k].currentResolution).res} :
         est' = [est EXCEPT ![k].pc = "W187", ![k].hullLen = @ + 1,
                            ![k].rateIdx = @ + 1, ![k].currentResolution = res]
    /\ UNCHANGED <<filenames, hullFiles, mainLocals, wg, started, writers,
                   crashed, others>>

\* Lines 153 or 171, then 189-192 and 249-252: the call fails, the walk
\* returns the error and EstimateVmafConvexHull returns.
EstWalkFailed(k) ==
    /\ ~crashed
    /\ est[k].pc = "R"
    /\ EstReturn(k, "walk failed")
    /\ UNCHANGED <<filenames, hullFiles, mainLocals, started, writers, crashed,
                   others>>

\* Line 106: the score log has no pooled_metrics.vmaf.mean number; the panic
\* in the ComputeVmaf goroutine ends the whole process.
EstPanic(k) ==
    /\ ~crashed
    /\ est[k].pc = "R"
    /\ est' = [est EXCEPT ![k].outcome = "panicked"]
    /\ crashed' = TRUE
    /\ UNCHANGED <<filenames, hullFiles, mainLocals, wg, started, writers,
                   others>>

\* Lines 196 and 254-258 with WriteConvexHullToJson (214-230): the walk
\* returned without error and the hull is written; os.Create may fail.
EstWrite(k) ==
    /\ ~crashed
    /\ est[k].pc = "W187"
    /\ est[k].rateIdx > Len(est[k].targetRates)
    /\ \E ok \in BOOLEAN :
         IF ok
         THEN /\ hullFiles' = hullFiles \cup {ConvexHullFilename(VideoFilename(k))}
              /\ writers' = writers \cup {k}
              /\ EstReturn(k, "written")
         ELSE /\ EstReturn(k, "write failed")
              /\ UNCHANGED <<hullFiles, writers>>
    /\ UNCHANGED <<filenames, mainLocals, started, crashed, others>>

\* Lines 139-147 and 110 for the call in progress in the walk of the k-th
\* filename: the two encoded files and their score logs, each named after
\* the reference file without ".mp4", the resolution and the rate.
TransientArtifacts(k) ==
    LET rt == est[k].targetRates[est[k].rateIdx]
        sides == {est[k].currentResolution,
                  GetNextResolution(est[k].currentResolution).res}
        encoded == {EncodedFilename(res, rt) : res \in sides}
    IN  {[ref |-> TrimSuffix(VideoFilename(k)), file |-> f] :
            f \in encoded \cup {LogPath(e) : e \in encoded}}

NextBatch ==
    \/ MainLoop
    \/ MainAdd
    \/ MainGo
    \/ MainBatchStarted
    \/ MainWait
    \/ \E k \in 1..Len(filenames) : EstSkipExisting(k)
    \/ \E k \in 1..Len(filenames) : EstProbe(k)
    \/ \E k \in 1..Len(filenames) : EstCallResolver(k)
    \/ \E k \in 1..Len(filenames) : EstResolved(k)
    \/ \E k \in 1..Len(filenames) : EstWalkFailed(k)
    \/ \E k \in 1..Len(filenames) : EstPanic(k)
    \/ \E k \in 1..Len(filenames) : EstWrite(k)

SpecBatch == InitBatch /\ [][NextBatch]_vars

\* The batch driver when the Go scheduler runs every runnable goroutine and
\* every external command terminates.
SpecBatchLive == SpecBatch /\ WF_vars(NextBatch)

-----------------------------------------------------------------------------
\* Properties of the walk.

Returned == pc = "returned"

ReturnedOk == pc = "returned" /\ walkErr = NoErr

ReturnedFailed == pc = "returned" /\ walkErr # NoErr

\* The current resolver call went past the ladder lookup (line 137).
PassedLookup == encState["candidate"] # "none"

\* The candidate resolution the i-th resolver call of the walk is due.
CandidateOf(i) ==
    IF i = 1 THEN referenceVideoResolution ELSE convexHull[i - 1].Resolution

\* No ladder entry is lower than res.
NoLower(res) == \A i \in 1..Len(Ladder) : Ladder[i].Height >= res.Height

\* C1: in the hull of every walk that returns without failure, no hull point
\* has a greater height than the point before it, and none has a greater
\* height than the reference resolution.
C1_MonotonicResolution ==
    ReturnedOk =>
        \A i \in 1..Len(convexHull) :
            /\ convexHull[i].Resolution.Height <= referenceVideoResolution.Height
            /\ i > 1 => convexHull[i].Resolution.Height
                            <= convexHull[i - 1].Resolution.Height

C1_Witness ==
    /\ ReturnedOk
    /\ Len(convexHull) >= 3
    /\ convexHull[1].Resolution = referenceVideoResolution
    /\ convexHull[2].Resolution.Height < convexHull[1].Resolution.Height
    /\ convexHull[3].Resolution.Height < convexHull[2].Resolution.Height

\* C2: when the k-th resolver call of a walk fails, the walk returns that
\* failure with exactly the k-1 hull points the earlier calls returned, in
\* order, and nothing was started for a later rate; an encode failure at the
\* second rate leaves one hull point.
C2_PartialFailurePreserved ==
    ReturnedFailed =>
        /\ walkErr = retErr
        /\ Len(convexHull) = resolveCalls - 1
        /\ convexHull = resolved
        /\ rateIdx = resolveCalls
        /\ \A f \in BagToSet(encodeStarts) \cup BagToSet(scoreStarts) :
               f.Rate >= targetRates[resolveCalls]
        /\ (walkErr = ErrEncode /\ resolveCalls = 2) => Len(convexHull) = 1

C2_Witness ==
    /\ ReturnedFailed
    /\ walkErr = ErrEncode
    /\ resolveCalls = 2
    /\ Len(convexHull) = 1
    /\ Len(targetRates) = 3

\* C3: when both encodes and both scores of a resolver call succeeded, equal
\* scores give the hull point of the next-lower resolution, and the candidate
\* resolution is returned only for a strictly greater score.
C3_TieBreakLower ==
    (/\ pc = "W189"
     /\ \A g \in Sides : vmafState[g] = "done" /\ vmaf[g] >= 0) =>
        /\ retErr = NoErr
        /\ vmaf["candidate"] = vmaf["next"] =>
               retPoint = Point(nextResolution, rate, vmaf["next"])
        /\ retPoint.Resolution = candidateResolution =>
               vmaf["candidate"] > vmaf["next"]
        /\ nextResolution.Height < candidateResolution.Height

C3_Witness ==
    /\ pc = "W189"
    /\ \A g \in Sides : vmafState[g] = "done" /\ vmaf[g] = MaxScore
    /\ retErr = NoErr
    /\ retPoint.Resolution = nextResolution

\* The transient files of the current resolver call: the two encoded files
\* and their two score logs.
CallArtifacts ==
    {SideFile(g) : g \in Sides} \cup {LogPath(SideFile(g)) : g \in Sides}

\* C4: whenever a resolver call that passed the ladder lookup has returned,
\* on any path, none of the encoded files and score logs it created is left.
C4_TransientCleanup ==
    (pc = "W189" /\ PassedLookup) => files \cap CallArtifacts = {}

\* An encode or a score of the current resolver call failed.
OperationFailed ==
    \/ \E g \in Sides : encState[g] = "done" /\ ~encOutcome[g]
    \/ \E g \in Sides : vmafState[g] = "done" /\ vmaf[g] < 0

\* C5: when an encode of a resolver call failed or a score is negative, the
\* call returns a failure and no hull point, also when the other encode or
\* score succeeded; the walk appends no point for that rate, and no encode or
\* score is started twice for the same resolution and rate.
C5_NoPartialHullPoint ==
    /\ (pc = "W189" /\ OperationFailed) =>
           retErr # NoErr /\ retPoint = ZeroPoint
    /\ (Returned /\ OperationFailed) =>
           /\ walkErr # NoErr
           /\ Len(convexHull) = resolveCalls - 1
           /\ \A i \in 1..Len(convexHull) : convexHull[i].Rate # rate
    /\ \A f \in BagToSet(encodeStarts) : CopiesIn(f, encodeStarts) = 1
    /\ \A f \in BagToSet(scoreStarts) : CopiesIn(f, scoreStarts) = 1

C5_Witness ==
    /\ Returned
    /\ walkErr = ErrVmaf
    /\ vmaf["candidate"] = MaxScore
    /\ vmaf["next"] < 0
    /\ Len(convexHull) = 1

\* C6: at the ladder floor the resolver returns, with no error and without
\* starting an encode or a score, the candidate resolution with score -1; the
\* walk goes on, every later hull point repeats that resolution and score,
\* and a negative score appears in a hull in no other case.
C6_LadderFloor ==
    /\ (pc = "W189" /\ NoLower(candidateResolution)) =>
           /\ retErr = NoErr
           /\ retPoint = Point(candidateResolution, rate, -1)
           /\ \A g \in Sides : encState[g] = "none" /\ vmafState[g] = "none"
           /\ \A f \in BagToSet(encodeStarts) \cup BagToSet(scoreStarts) :
                  f.Rate # rate
    /\ \A i \in 1..Len(convexHull) :
           /\ convexHull[i].VmafScore < 0 <=> NoLower(CandidateOf(i))
           /\ convexHull[i].VmafScore < 0 =>
                  /\ convexHull[i].VmafScore = -1
                  /\ convexHull[i].Resolution = CandidateOf(i)
                  /\ \A j \in i..Len(convexHull) :
                         /\ convexHull[j].Resolution = convexHull[i].Resolution
                         /\ convexHull[j].VmafScore = -1
    /\ (Returned /\ \E i \in 1..Len(convexHull) : convexHull[i].VmafScore < 0) =>
           walkErr = NoErr /\ Len(convexHull) = Len(targetRates)

C6_Witness ==
    /\ ReturnedOk
    /\ Len(convexHull) = 3
    /\ convexHull[1].VmafScore >= 0
    /\ convexHull[1].Resolution # referenceVideoResolution
    /\ convexHull[2].VmafScore = -1
    /\ convexHull[3] = Point(convexHull[1].Resolution, RateFloor, -1)

BothEncoded == \A g \in Sides : encState[g] = "done" /\ encOutcome[g]

BothScored == \A g \in Sides : vmafState[g] = "done"

\* C9: in a resolver call no encode is awaited before both are started, no
\* score is started before both encodes have completed successfully, the
\* encoded files stay in place until both scores have completed, and a hull
\* point is returned only after both scores have completed and been received.
C9_ForkJoinOrdering ==
    /\ (pc \in {"R150", "R151"} \/ \E g \in Sides : encState[g] = "done") =>
           \A h \in Sides : encState[h] # "none"
    /\ (\E g \in Sides : vmafState[g] # "none") =>
           BothEncoded /\ \A h \in Sides : encodeSuccess[h]
    /\ (BothEncoded /\ ~BothScored) => \A g \in Sides : SideFile(g) \in files
    /\ (pc = "W189" /\ PassedLookup /\ retErr = NoErr) =>
           BothScored /\ \A h \in Sides : vmafChan[h] = << >>

C9_Witness ==
    /\ pc = "R164"
    /\ vmafState["next"] = "done"
    /\ vmafState["candidate"] = "running"
    /\ resolveCalls = 2

\* C10: nothing is started for a target rate before the hull points of all
\* earlier target rates are in the hull, and the candidate resolution of
\* each resolver call is the resolution of the previous hull point (the
\* reference resolution for the first rate).
C10_CrossRateSequential ==
    /\ \A f \in BagToSet(encodeStarts) \cup BagToSet(scoreStarts) :
           \A j \in 1..Len(targetRates) :
               targetRates[j] > f.Rate =>
                   /\ j <= Len(convexHull)
                   /\ convexHull[j].Rate = targetRates[j]
                   /\ j < resolveCalls
    /\ pc \in {"R134", "R143", "R147", "R150", "R151", "R152", "R160", "R161",
               "R164", "R165", "R167", "R170", "W189"} =>
           /\ resolveCalls = Len(convexHull) + 1
           /\ rate = targetRates[resolveCalls]
           /\ candidateResolution = CandidateOf(resolveCalls)
    /\ pc = "W187" => currentResolution = CandidateOf(Len(convexHull) + 1)

C10_Witness ==
    /\ pc = "R150"
    /\ resolveCalls = 3
    /\ candidateResolution = convexHull[2].Resolution
    /\ candidateResolution # convexHull[1].Resolution
    /\ convexHull[1].Resolution # referenceVideoResolution

IsPrefix(s, t) == Len(s) <= Len(t) /\ SubSeq(t, 1, Len(s)) = s

\* C11: a walk that returns without failure returns one hull point per
\* target rate, the i-th carrying the i-th target rate, so the rates strictly
\* decrease; during the walk the hull only grows at its end and is always a
\* prefix of the points the resolver returned.
C11_HullShape ==
    /\ [](/\ IsPrefix(convexHull, resolved)
          /\ \A i \in 1..Len(convexHull) : convexHull[i].Rate = targetRates[i]
          /\ \A i \in 1..(Len(convexHull) - 1) :
                 convexHull[i].Rate > convexHull[i + 1].Rate
          /\ ReturnedOk => Len(convexHull) = Len(targetRates))
    /\ [][IsPrefix(convexHull, convexHull')]_vars

C11_Witness ==
    /\ ReturnedOk
    /\ Len(convexHull) = 3
    /\ convexHull[1].Rate = 1500
    /\ convexHull[2].Rate = 1000
    /\ convexHull[3].Rate = 500
    /\ convexHull[3].Resolution # convexHull[1].Resolution

\* res is the first ladder entry below cand.
ImmediatelyBelow(res, cand) ==
    \E k \in 1..Len(Ladder) :
        /\ res = Ladder[k]
        /\ Ladder[k].Height < cand.Height
        /\ \A j \in 1..(k - 1) : Ladder[j].Height >= cand.Height

\* The ladder entries from the reference resolution (excluded) down to res.
EntriesDownTo(res) ==
    {k \in 1..Len(Ladder) :
        /\ Ladder[k].Height < referenceVideoResolution.Height
        /\ Ladder[k].Height >= res.Height}

\* C17: every hull point has the resolution of the point before it (the
\* reference resolution for the first) or the ladder entry immediately below
\* that one; after n rate steps the hull is at most n ladder entries below
\* the reference.
C17_SingleStepDescent ==
    \A i \in 1..Len(convexHull) :
        /\ \/ convexHull[i].Resolution = CandidateOf(i)
           \/ ImmediatelyBelow(convexHull[i].Resolution, CandidateOf(i))
        /\ Cardinality(EntriesDownTo(convexHull[i].Resolution)) <= i

C17_Witness ==
    /\ Returned
    /\ Len(convexHull) = 3
    /\ referenceVideoResolution = Res(1000, 1778)
    /\ convexHull[1].Resolution = Ladder[4]
    /\ convexHull[2].Resolution = Ladder[4]
    /\ convexHull[3].Resolution = Ladder[5]

\* No goroutine of the current resolver call is running or blocked on its
\* channel, and no sent value is left unreceived.
NoGoroutineLeft ==
    /\ \A g \in Sides : encState[g] \in {"none", "done"}
    /\ \A g \in Sides : vmafState[g] \in {"none", "done"}
    /\ \A g \in Sides : vmafChan[g] = << >>

\* C18: every resolver call comes to an end (it returns, or the process dies
\* in the panic of line 106), the walk comes to an end, and when a call has
\* returned none of its goroutines is running or blocked on its channel; no
\* send ever finds its buffered channel full.
C18_JoinWithoutLeak ==
    /\ [](pc \in {"W189", "W187", "returned"} => NoGoroutineLeft)
    /\ [](\A g \in Sides : Len(vmafChan[g]) <= 1)
    /\ [](pc = "R134" => <>(pc \in {"W189", "panicked"}))
    /\ <>(pc \in {"returned", "panicked"})

C18_Witness ==
    /\ pc = "W189"
    /\ retErr = ErrEncode
    /\ ~encOutcome["candidate"]
    /\ encOutcome["next"]
    /\ encState["candidate"] = "done"
    /\ encState["next"] = "done"

-----------------------------------------------------------------------------
\* Properties of the end-to-end scenarios.

\* The walk has not hit a failure.
NoFailure == walkErr = NoErr /\ (pc = "W189" => retErr = NoErr)

\* C12: with a scorer that ranks 720p above 1080p exactly below 2000 kbps,
\* the walk of a 1080p source succeeds, its hull is at 1080p for every rate
\* of 2000 kbps or more, is at 720p at the first target rate below 2000 kbps,
\* and is never above 720p after that.
C12_CrossoverAt2000 ==
    /\ NoFailure
    /\ ReturnedOk => Len(convexHull) = Len(targetRates)
    /\ \A i \in 1..Len(convexHull) :
           /\ convexHull[i].Rate >= 2000 =>
                  convexHull[i].Resolution = Res(1080, 1920)
           /\ (convexHull[i].Rate < 2000
                  /\ (i = 1 \/ convexHull[i - 1].Rate >= 2000)) =>
                  convexHull[i].Resolution = Res(720, 1280)
           /\ convexHull[i].Rate < 2000 =>
                  convexHull[i].Resolution.Height <= 720

C12_Witness ==
    /\ ReturnedOk
    /\ Len(convexHull) = 5
    /\ convexHull[2] = Point(Res(1080, 1920), 2000, 1)
    /\ convexHull[3] = Point(Res(720, 1280), 1500, 2)
    /\ convexHull[5].Resolution.Height < 720

\* C13: with a scorer that ranks the higher resolution strictly higher (the
\* score is the height), the walk of a 1080p source succeeds and every hull
\* point is at 1080p.
C13_AlwaysReference ==
    /\ NoFailure
    /\ ReturnedOk => Len(convexHull) = Len(targetRates)
    /\ \A i \in 1..Len(convexHull) :
           convexHull[i] = Point(Res(1080, 1920), targetRates[i], 1080)

C13_Witness ==
    /\ ReturnedOk
    /\ Len(convexHull) = 9
    /\ convexHull[9] = Point(Res(1080, 1920), 500, 1080)

\* The rates 500 * n, 500 * (n - 1), .., 500.
RatesFrom(n) == [i \in 1..n |-> 500 * (n + 1 - i)]

\* The rates an encode was started for.
ProbedRates == {f.Rate : f \in BagToSet(encodeStarts)}

\* C14 as stated: for a 5000 kbps source the walk probes exactly the rates
\* 4500, 4000, .., 500.
C14_RatesFrom4500 ==
    (referenceVideoRate = 5000 /\ pc # "W183") =>
        /\ targetRates = RatesFrom(9)
        /\ ReturnedOk => ProbedRates = {targetRates[i] : i \in 1..9}

\* C14 as amended: for a 5000 kbps source the walk probes exactly the rates
\* 5000, 4500, .., 500.
C14_RatesFrom5000 ==
    (referenceVideoRate = 5000 /\ pc # "W183") =>
        /\ targetRates = RatesFrom(10)
        /\ ReturnedOk =>
               /\ ProbedRates = {5000 - 500 * k : k \in 0..9}
               /\ \A i \in 1..10 : convexHull[i].Rate = RatesFrom(10)[i]

C14_Witness ==
    /\ ReturnedOk
    /\ referenceVideoRate = 5000
    /\ Len(convexHull) = 10
    /\ convexHull[1].Rate = 5000
    /\ 5000 \in ProbedRates

-----------------------------------------------------------------------------
\* Properties of GetTargetRates.

\* C7: for a source rate of at least 500 the target rates are a non-empty,
\* strictly decreasing sequence of positive multiples of 500 that ends
\* with 500 and starts at most at min(rate, 10000); for no source rate is a
\* non-positive rate produced.
C7_TargetRates ==
    grDone =>
        /\ \A i \in 1..Len(grOut) : grOut[i] > 0
        /\ grIn >= 500 =>
               /\ Len(grOut) > 0
               /\ \A i \in 1..(Len(grOut) - 1) : grOut[i] > grOut[i + 1]
               /\ \A i \in 1..Len(grOut) : grOut[i] % 500 = 0
               /\ grOut[Len(grOut)] = 500
               /\ grOut[1] <= grIn /\ grOut[1] <= 10000

C7_Witness ==
    /\ grDone
    /\ grIn > 10000
    /\ Len(grOut) = 20
    /\ grOut[1] = 10000

-----------------------------------------------------------------------------
\* Properties of GetNextResolution.

\* The input of the i-th application of the traversal.
InputOf(i) == IF i = 1 THEN nrStart ELSE nrVisited[i - 1]

\* C8: repeated from the top entry, GetNextResolution yields the remaining
\* ladder entries one by one in ladder order and then reports no next
\* resolution; for every input the result is the first ladder entry of
\* strictly smaller height; the ladder is not modified.
C8_LadderTraversal ==
    /\ resolutions = Ladder
    /\ nrStart = Ladder[1] =>
           /\ Len(nrVisited) < Len(Ladder)
           /\ \A i \in 1..Len(nrVisited) : nrVisited[i] = Ladder[i + 1]
           /\ nrDone => <<nrStart>> \o nrVisited = Ladder
    /\ \A i \in 1..Len(nrVisited) :
           \E k \in 1..Len(Ladder) :
               /\ nrVisited[i] = Ladder[k]
               /\ Ladder[k].Height < InputOf(i).Height
               /\ \A j \in 1..(k - 1) : Ladder[j].Height >= InputOf(i).Height
    /\ nrDone => NoLower(nrCur)

C8_Witness ==
    /\ nrStart = Ladder[1]
    /\ nrDone
    /\ Len(nrVisited) = 10
    /\ nrCur = Ladder[11]

-----------------------------------------------------------------------------
\* Properties of the batch driver.

Assets == 1..Len(filenames)

\* The walks started and not yet returned.
InFlight == {k \in Assets : est[k].pc \notin {"idle", "done"}}

\* The batch of the k-th filename, counted from 0.
BatchOf(k) == (k - 1) \div batchSize

\* The calls of GetOptimalResolutionForRate in progress.
Resolving == {k \in Assets : est[k].pc = "R"}

\* C19: main starts EstimateVmafConvexHull at most once per filename and, by
\* the time it returns, exactly once for every filename; never more than
\* batchSize walks are in flight; a walk is only started when every walk of
\* the earlier batches has called Done; the WaitGroup counter is never
\* negative (it counts the walks in flight once a batch is started); and,
\* unless a panic ends the process first, main returns.
C19_BoundedFanOut ==
    /\ [](/\ \A k \in Assets : started[k] <= 1
          /\ mainPc = "exit" => \A k \in Assets : started[k] = 1 /\ est[k].pc = "done"
          /\ Cardinality(InFlight) <= batchSize
          /\ \A k, l \in Assets :
                 est[k].pc # "idle" /\ BatchOf(l) < BatchOf(k) => est[l].pc = "done"
          /\ wg >= 0
          /\ wg >= Cardinality(InFlight))
    /\ <>(mainPc = "exit" \/ crashed)

C19_Witness ==
    /\ mainPc = "exit"
    /\ Len(filenames) > batchSize
    /\ \A k \in Assets : started[k] = 1 /\ est[k].pc = "done"
    /\ wg = 0

\* The step in which the walk of the k-th filename creates its hull file.
WritesHull(k) == est[k].outcome # "written" /\ est'[k].outcome = "written"

\* C20: a hull file is written for an asset only when its resolution and
\* bitrate were probed successfully, its height is at most 1080 and its walk
\* went through every target rate without failure; no other step creates a
\* hull file, and an asset whose hull file was found, whose height exceeds
\* 1080 or whose walk failed never gets one written.
C20_PersistOnlyOnSuccess ==
    [][/\ \A k \in Assets :
            WritesHull(k) =>
                /\ est[k].probeOk
                /\ est[k].resolution.Height <= 1080
                /\ est[k].pc = "W187"
                /\ est[k].rateIdx > Len(est[k].targetRates)
       /\ hullFiles' # hullFiles => \E k \in Assets : WritesHull(k)
       /\ \A k \in Assets :
            est[k].outcome \in {"skipped", "walk failed"} =>
                est'[k].outcome = est[k].outcome]_vars

\* C15: the transient artifact names (encoded files and score logs) of any
\* two calls of the resolver that are in progress at the same time are
\* disjoint.
C15_ArtifactIsolation ==
    \A k, l \in Resolving :
        k # l => TransientArtifacts(k) \cap TransientArtifacts(l) = {}

\* The walk of the k-th filename met an encode or score failure.
Failed(k) == est[k].outcome \in {"walk failed", "panicked"}

\* The walk of the l-th filename can no longer run to its completion.
Halted(l) == crashed /\ est[l].pc # "done"

\* C16: a failure in the walk of one asset halts only that walk; no walk of
\* another asset, in the same batch or a later one, is kept from running to
\* its completion by it.
C16_FailureIsolation ==
    \A k \in Assets : Failed(k) => \A l \in Assets \ {k} : ~Halted(l)

====
